---- MODULE Spec2Model ----
(***************************************************************************)
(* Model of the bounded web image crawler (image_crawler.py):              *)
(* ImageCrawler.__init__ / _check_robots, _is_allowed, _normalize_url,     *)
(* _is_same_domain, _get_page, _find_links, _download_image and crawl.     *)
(*                                                                         *)
(* A URL is a record of the parts urlparse() yields; a path is a sequence  *)
(* of one-character strings so that rstrip("/") is computed, not assumed.  *)
(***************************************************************************)
EXTENDS Integers, Sequences, FiniteSets, TLC

(***************************************************************************)
(* Bounds of the model.                                                    *)
(***************************************************************************)
MaxPagesBound == 3      \* max_pages ranges over 0..MaxPagesBound
MaxDepthBound == 2      \* max_depth ranges over -1..MaxDepthBound
MaxImages == 2          \* <img> tags the pages of the site hold in all

(***************************************************************************)
(* URLs.                                                                   *)
(***************************************************************************)
\* urlparse() of a URL without ";params"
Url(s, n, p, q, f) ==
    [scheme |-> s, netloc |-> n, path |-> p, params |-> <<>>, query |-> q, fragment |-> f]

RECURSIVE RStripSlash(_)
\* str.rstrip("/") on a path
RStripSlash(p) ==
    IF p # <<>> /\ p[Len(p)] = "/" THEN RStripSlash(SubSeq(p, 1, Len(p) - 1)) ELSE p

\* ImageCrawler._normalize_url
_normalize_url(u) ==
    [scheme   |-> u.scheme,
     netloc   |-> u.netloc,
     path     |-> IF RStripSlash(u.path) = <<>> THEN <<"/">> ELSE RStripSlash(u.path),
     params   |-> u.params,
     query    |-> u.query,
     fragment |-> <<>>]

\* self.base_url = base_url.rstrip("/") for the command-line URL "https://h/"
base_url == Url("https", "h", RStripSlash(<<"/">>), <<>>, <<>>)

\* ImageCrawler._is_same_domain
_is_same_domain(u) == u.netloc = base_url.netloc \/ u.netloc = ""

\* The <a href> values a page body can hold, already joined to the page URL
\* (urljoin): the site's pages in several spellings, and one foreign page.
Hrefs ==
    { Url("https", "h", <<"/">>, <<>>, <<>>),
      Url("https", "h", <<"/", "a", "/">>, <<>>, <<"t">>),
      Url("https", "h", <<"/", "b">>, <<>>, <<>>),
      Url("https", "o", <<"/", "x">>, <<>>, <<>>) }

\* <a href="mailto:m">: urljoin leaves it as it is, and it has no netloc
Mailto == Url("mailto", "", <<"m">>, <<>>, <<>>)

\* the anchors of a site whose pages link to /a/#t and to a mail address
MailHrefs == { h \in Hrefs : h.fragment # <<>> } \cup {Mailto}

\* session.get has a connection adapter for the URL; for any other scheme it
\* raises InvalidSchema, a RequestException
HasAdapter(u) == u.scheme \in {"http", "https"}

\* urlsplit raises ValueError("Invalid IPv6 URL") for a netloc with one bracket
UrlJoinRaises(h) == h.netloc \in {"[", "]"}

\* the href values with the one urljoin cannot parse: href="http://["
RawHrefs == Hrefs \cup { Url("http", "[", <<>>, <<>>, <<>>) }

\* ImageCrawler._find_links on a body whose anchors are hrefs, all parseable
_find_links(hrefs) ==
    { _normalize_url(h) : h \in { x \in hrefs : _is_same_domain(_normalize_url(x)) } }

PageUrls == {base_url} \cup { _normalize_url(h) : h \in Hrefs }

(***************************************************************************)
(* robots.txt: the RobotFileParser left by _check_robots.                  *)
(* how   : what rp.read() met: a file that was parsed, an HTTP error       *)
(*         status, or an exception other than HTTPError (host unreachable, *)
(*         undecodable bytes)                                              *)
(* rules : the path prefixes a parsed file disallows for user-agent *      *)
(***************************************************************************)
RobotsReads == {"parsed", "http_403", "http_404", "http_500", "exception"}

RobotsRules == { {}, {<<"/", "a">>}, {<<"/">>} }

\* RuleLine.applies_to: the rule's path is a prefix of the URL's path
StartsWith(s, pre) == Len(s) >= Len(pre) /\ SubSeq(s, 1, Len(pre)) = pre

\* ImageCrawler._check_robots: the parser after rp.read() ended as `how`
_check_robots(how, rules) ==
    [disallow_all |-> (how = "http_403"),
     allow_all    |-> (how = "http_404"),
     last_checked |-> (how = "parsed"),
     rules        |-> IF how = "parsed" THEN rules ELSE {},
     how          |-> how]

\* ImageCrawler._is_allowed: RobotFileParser.can_fetch("*", url)
_is_allowed(rp, u) ==
    IF rp.disallow_all THEN FALSE
    ELSE IF rp.allow_all THEN TRUE
    ELSE IF ~rp.last_checked THEN FALSE
    ELSE ~\E rule \in rp.rules : StartsWith(IF u.path = <<>> THEN <<"/">> ELSE u.path, rule)

(***************************************************************************)
(* Strings as sequences of characters.                                     *)
(***************************************************************************)
\* s.endswith(suf)
EndsWith(s, suf) ==
    Len(s) >= Len(suf) /\ SubSeq(s, Len(s) - Len(suf) + 1, Len(s)) = suf

\* sub in s
Contains(s, sub) ==
    \E i \in 1..(Len(s) - Len(sub) + 1) : SubSeq(s, i, i + Len(sub) - 1) = sub

\* str.lower(), on the letters the model's URLs use
LowerChar(c) ==
    CASE c = "W" -> "w" [] c = "E" -> "e" [] c = "B" -> "b" [] c = "P" -> "p" [] OTHER -> c

Lower(s) == [i \in 1..Len(s) |-> LowerChar(s[i])]

RECURSIVE LastSlash(_)
\* index of the last "/" of p, 0 when there is none
LastSlash(p) ==
    IF p = <<>> THEN 0
    ELSE IF p[Len(p)] = "/" THEN Len(p) ELSE LastSlash(SubSeq(p, 1, Len(p) - 1))

\* os.path.basename(parsed.path)
Basename(p) == SubSeq(p, LastSlash(p) + 1, Len(p))

\* the characters of urlunparse(u), as far as a substring test for ".webp" needs them
UrlChars(u) == u.path \o <<"?">> \o u.query

\* re.sub(r'[<>:"/\\|?*]', "_", filename)
IllegalChars == {"<", ">", ":", "\"", "/", "\\", "|", "?", "*"}
Sanitize(s) == [i \in 1..Len(s) |-> IF s[i] \in IllegalChars THEN "_" ELSE s[i]]

\* str(n) for the small counts the model reaches
Digits == <<"0", "1", "2", "3", "4", "5", "6", "7", "8", "9">>
Str(n) == IF n < 10 THEN <<Digits[n + 1]>> ELSE <<Digits[(n \div 10) + 1], Digits[(n % 10) + 1]>>

DotWebp == <<".", "w", "e", "b", "p">>
DotTmp  == <<".", "t", "m", "p">>
DotJpg  == <<".", "j", "p", "g">>
DotPng  == <<".", "p", "n", "g">>
DotGif  == <<".", "g", "i", "f">>
ImagePrefix == <<"i", "m", "a", "g", "e", "_">>

\* filepath.with_suffix(filepath.suffix + ".tmp")
TempName(filename) == filename \o DotTmp

(***************************************************************************)
(* Image candidates.                                                       *)
(***************************************************************************)
\* The <img src> values a page body can hold, already joined to the page URL.
ImageSrcs ==
    { Url("https", "h", <<"/", "a", ".", "p", "n", "g">>, <<>>, <<>>),
      Url("https", "h", <<"/", "x", "/", "a", ".", "p", "n", "g">>, <<>>, <<>>),
      Url("https", "h", <<"/", "i">>, <<>>, <<>>),
      Url("https", "h", <<"/", "c", ".", "W", "E", "B", "P">>, <<>>, <<>>),
      Url("ftp", "o", <<"/", "f", ".", "p", "n", "g">>, <<>>, <<>>) }

\* src.lower().endswith(".webp") or ".webp" in src.lower()
IsWebpUrl(u) ==
    EndsWith(Lower(UrlChars(u)), DotWebp) \/ Contains(Lower(UrlChars(u)), DotWebp)

\* The srcset values the <picture><source> tags of a body can hold:
\* "/a.png 2x" and, with a trailing comma, "/a.png 2x,"
SrcSets ==
    { <<"/", "a", ".", "p", "n", "g", " ", "2", "x">>,
      <<"/", "a", ".", "p", "n", "g", " ", "2", "x", ",">> }

RECURSIVE Split(_, _)
\* s.split(sep) for a one-character sep
Split(s, sep) ==
    IF \E i \in 1..Len(s) : s[i] = sep
    THEN LET i == CHOOSE k \in 1..Len(s) : s[k] = sep /\ \A m \in 1..(k - 1) : s[m] # sep
         IN  <<SubSeq(s, 1, i - 1)>> \o Split(SubSeq(s, i + 1, Len(s)), sep)
    ELSE <<s>>

RECURSIVE LStrip(_)
\* the leading blanks of s removed
LStrip(s) == IF s # <<>> /\ s[1] = " " THEN LStrip(Tail(s)) ELSE s

\* item.strip().split() is the empty list: item holds blanks only
NoWords(item) == LStrip(item) = <<>>

\* item.strip().split()[0], for an item that holds a word
FirstWord(item) == Split(LStrip(item), " ")[1]

\* the items of the srcset values of a body
SrcsetItems(sets) == UNION { { Split(s, ",")[i] : i \in 1..Len(Split(s, ",")) } : s \in sets }

\* _find_images raises IndexError: url_part = item.strip().split()[0] on an
\* item without a word
FindImagesRaises(sets) == \E item \in SrcsetItems(sets) : NoWords(item)

\* url_part.lower().endswith(".webp") or ".webp" in url_part.lower()
IsWebpText(w) == EndsWith(Lower(w), DotWebp) \/ Contains(Lower(w), DotWebp)

\* urljoin(page_url, url_part) for an absolute path on a page of the site
UrlJoinPath(w) == Url(base_url.scheme, base_url.netloc, w, <<>>, <<>>)

\* ImageCrawler._find_images on a body whose <img> tags are srcs and whose
\* <picture><source> tags hold the srcset values sets, when it returns
_find_images(srcs, sets) ==
    { u \in srcs : ~IsWebpUrl(u) }
    \cup { UrlJoinPath(FirstWord(item)) : item \in { x \in SrcsetItems(sets) : ~IsWebpText(FirstWord(x)) } }

\* crawl: self._is_same_domain(img_url) or img_url.startswith("http")
Downloadable(u) == _is_same_domain(u) \/ u.scheme \in {"http", "https"}

(***************************************************************************)
(* What the server and the disk answer to one download attempt.            *)
(*   fault        : where the attempt raises ("none": nowhere)             *)
(*   content_type : Content-Type of the HEAD response ("fail": HEAD raised)*)
(*   size_kb      : st_size / 1024 of the staged file                      *)
(*   dims         : Image.size of the staged file, <<>> when unreadable    *)
(*   prefix, tail : the first 64KB of the payload, and the rest            *)
(*   get_type     : Content-Type of the GET response                       *)
(***************************************************************************)
Faults == {"none", "get", "stream", "stat", "hash", "rename"}

Response(f, ct, kb, d, p, t) ==
    [fault |-> f, content_type |-> ct, size_kb |-> kb, dims |-> d, prefix |-> p, tail |-> t,
     get_type |-> "image/png"]

\* the answers to a URL that has a filename (no HEAD is sent)
PlainResponses ==
    { Response(f, "none", 2, <<>>, "p", "") : f \in {"get", "stream", "stat"} }
    \cup { Response("none", "none", 2, <<50, 200>>, "p", ""),
           Response("none", "none", 100, <<200, 50>>, "p", "t"),
           Response("none", "none", 100, <<>>, "p", "t"),
           Response("hash", "none", 100, <<200, 200>>, "p", "t"),
           Response("none", "none", 100, <<200, 200>>, "p", "u") }
    \cup { Response(f, "none", 100, <<200, 200>>, p, "t") : f \in {"none", "rename"}, p \in {"p", "q"} }

\* the answers to a URL without a filename: the HEAD fails or names a type
Responses ==
    PlainResponses
    \cup { [r EXCEPT !.content_type = ct] : r \in PlainResponses, ct \in {"fail", "image/png"} }
    \cup { Response("none", "image/webp", 2, <<>>, "p", "") }
    \cup { [Response("none", "none", 100, <<200, 200>>, "p", "t") EXCEPT !.get_type = "image/webp"] }

min_size_kb == 10
min_dimensions == <<100, 100>>

\* ImageCrawler._get_image_hash: md5 of the first 64KB, "" when the read fails
_get_image_hash(r) == IF r.fault = "hash" THEN "" ELSE r.prefix

\* an unreadable image reported as an image of size 0x0
_check_image_dimensions_Zero(r) == IF r.dims = <<>> THEN <<0, 0>> ELSE r.dims

\* ImageCrawler._check_image_dimensions: None is <<>>
_check_image_dimensions(r) == r.dims

SkipReasons == {"webp", "too_small_size", "too_small_dimensions", "duplicate", "already_exists"}

\* the files of the output directory: name -> the URL whose bytes it holds
Without(fs, name) == [n \in (DOMAIN fs) \ {name} |-> fs[n]]
With(fs, name, v) == [n \in (DOMAIN fs) \cup {name} |-> IF n = name THEN v ELSE fs[n]]

(***************************************************************************)
(* ImageCrawler._download_image as a function of the crawler's fields `c`  *)
(* (skip_stats, files, seen_image_hashes, downloaded_images, failed_images,*)
(* image_gets, image_heads, wire, no_duplicates), the URL and the answers  *)
(* `r`.                                                                    *)
(* The result holds the fields after the call, the value returned (ret),   *)
(* the outcome and the final filename the attempt derived.                 *)
(***************************************************************************)
Skipped(c, reason, name, ret) ==
    [c EXCEPT !.skip_stats[reason] = @ + 1, !.ret = ret, !.outcome = reason, !.filename = name]

\* the except branch without the cleanup of the staging file
Failed_NoCleanup(c, url, name, staged) ==
    [c EXCEPT !.failed_images = Append(@, url),
              !.ret = FALSE, !.outcome = "failed", !.filename = name]

\* the except branch: remove the staging file if it exists, record the failure
Failed(c, url, name, staged) ==
    [c EXCEPT !.files = IF staged /\ TempName(name) \in DOMAIN c.files
                           THEN Without(c.files, TempName(name)) ELSE c.files,
              !.failed_images = Append(@, url),
              !.ret = FALSE, !.outcome = "failed", !.filename = name]

\* the URL has no usable filename: a HEAD request decides the extension
NeedsHead(url) == Basename(url.path) = <<>> \/ ~Contains(Basename(url.path), <<".">>)

\* the checks with the dimension stage ahead of the size stage
CheckAndPromote_DimsFirst(c, url, name, r) ==
    LET temp == TempName(name)
        dims == _check_image_dimensions(r)
        img_hash == _get_image_hash(r)
    IN  IF r.fault = "stat" THEN Failed(c, url, name, TRUE)
        ELSE IF dims # <<>> /\ (dims[1] < min_dimensions[1] \/ dims[2] < min_dimensions[2])
             THEN Skipped([c EXCEPT !.files = Without(@, temp)], "too_small_dimensions", name, FALSE)
        ELSE IF r.size_kb < min_size_kb
             THEN Skipped([c EXCEPT !.files = Without(@, temp)], "too_small_size", name, FALSE)
        ELSE IF c.no_duplicates /\ img_hash # "" /\ img_hash \in c.seen_image_hashes
             THEN Skipped([c EXCEPT !.files = Without(@, temp)], "duplicate", name, FALSE)
        ELSE LET c1 == IF c.no_duplicates
                          THEN [c EXCEPT !.seen_image_hashes = @ \cup {img_hash}] ELSE c
             IN  IF r.fault = "rename" THEN Failed(c1, url, name, TRUE)
                 ELSE [c1 EXCEPT !.files = With(Without(@, temp), name, url),
                                 !.downloaded_images = Append(@, url),
                                 !.ret = TRUE, !.outcome = "accepted", !.filename = name]

\* the URL appended to downloaded_images ahead of the rename
CheckAndPromote_AppendFirst(c, url, name, r) ==
    LET temp == TempName(name)
        dims == _check_image_dimensions(r)
        img_hash == _get_image_hash(r)
    IN  IF r.fault = "stat" THEN Failed(c, url, name, TRUE)
        ELSE IF r.size_kb < min_size_kb
             THEN Skipped([c EXCEPT !.files = Without(@, temp)], "too_small_size", name, FALSE)
        ELSE IF dims # <<>> /\ (dims[1] < min_dimensions[1] \/ dims[2] < min_dimensions[2])
             THEN Skipped([c EXCEPT !.files = Without(@, temp)], "too_small_dimensions", name, FALSE)
        ELSE IF c.no_duplicates /\ img_hash # "" /\ img_hash \in c.seen_image_hashes
             THEN Skipped([c EXCEPT !.files = Without(@, temp)], "duplicate", name, FALSE)
        ELSE LET c1 == IF c.no_duplicates
                          THEN [c EXCEPT !.seen_image_hashes = @ \cup {img_hash}] ELSE c
                 c2 == [c1 EXCEPT !.downloaded_images = Append(@, url)]
             IN  IF r.fault = "rename" THEN Failed(c2, url, name, TRUE)
                 ELSE [c2 EXCEPT !.files = With(Without(@, temp), name, url),
                                 !.ret = TRUE, !.outcome = "accepted", !.filename = name]

\* lines 269-300: the staged file is checked, then promoted
CheckAndPromote(c, url, name, r) ==
    LET temp == TempName(name)
        dims == _check_image_dimensions(r)
        img_hash == _get_image_hash(r)
    IN  IF r.fault = "stat" THEN Failed(c, url, name, TRUE)
        ELSE IF r.size_kb < min_size_kb
             THEN Skipped([c EXCEPT !.files = Without(@, temp)], "too_small_size", name, FALSE)
        ELSE IF dims # <<>> /\ (dims[1] < min_dimensions[1] \/ dims[2] < min_dimensions[2])
             THEN Skipped([c EXCEPT !.files = Without(@, temp)], "too_small_dimensions", name, FALSE)
        ELSE IF c.no_duplicates /\ img_hash # "" /\ img_hash \in c.seen_image_hashes
             THEN Skipped([c EXCEPT !.files = Without(@, temp)], "duplicate", name, FALSE)
        ELSE LET c1 == IF c.no_duplicates
                          THEN [c EXCEPT !.seen_image_hashes = @ \cup {img_hash}] ELSE c
             IN  IF r.fault = "rename" THEN Failed(c1, url, name, TRUE)
                 ELSE [c1 EXCEPT !.files = With(Without(@, temp), name, url),
                                 !.downloaded_images = Append(@, url),
                                 !.ret = TRUE, !.outcome = "accepted", !.filename = name]

\* the GET issued ahead of the existing-file test
FetchAndStage_GetFirst(c, url, filename, r) ==
    LET name == Sanitize(filename)
        c1 == [c EXCEPT !.image_gets = Append(@, url), !.wire = @ \o <<"sleep", "GET">>]
    IN  IF name \in DOMAIN c.files THEN Skipped(c1, "already_exists", name, TRUE)
        ELSE IF r.fault = "get" THEN Failed(c1, url, name, FALSE)
        ELSE LET c2 == [c1 EXCEPT !.files = With(@, TempName(name), url)]
             IN  IF r.fault = "stream" THEN Failed(c2, url, name, TRUE)
                 ELSE CheckAndPromote(c2, url, name, r)

\* lines 249-267: sanitize, existing-file short-circuit, time.sleep(delay)
\* and GET, staging
FetchAndStage(c, url, filename, r) ==
    LET name == Sanitize(filename)
    IN  IF name \in DOMAIN c.files THEN Skipped(c, "already_exists", name, TRUE)
        ELSE LET c1 == [c EXCEPT !.image_gets = Append(@, url),
                                  !.wire = @ \o <<"sleep", "GET">>]
             IN  IF r.fault = "get" THEN Failed(c1, url, name, FALSE)
                 ELSE LET c2 == [c1 EXCEPT !.files = With(@, TempName(name), url)]
                      IN  IF r.fault = "stream" THEN Failed(c2, url, name, TRUE)
                          ELSE CheckAndPromote(c2, url, name, r)

_download_image(c, url, r) ==
    LET filename == Basename(url.path)
    IN  IF EndsWith(Lower(filename), DotWebp) \/ Contains(Lower(UrlChars(url)), DotWebp)
        THEN Skipped(c, "webp", filename, FALSE)
        ELSE IF NeedsHead(url)
        THEN LET c1 == [c EXCEPT !.image_heads = Append(@, url), !.wire = Append(@, "HEAD")]
                 ext == IF r.content_type = "image/png" THEN DotPng
                        ELSE IF r.content_type = "image/gif" THEN DotGif ELSE DotJpg
             IN  IF r.content_type = "image/webp" THEN Skipped(c1, "webp", filename, FALSE)
                 ELSE FetchAndStage(c1, url, ImagePrefix \o Str(Len(c.downloaded_images)) \o ext, r)
        ELSE FetchAndStage(c, url, filename, r)

(***************************************************************************)
(* State.                                                                  *)
(***************************************************************************)
VARIABLES
    max_pages,         \* crawl(max_pages, ...)
    max_depth,         \* crawl(..., max_depth)
    robots_parser,     \* self.robots_parser
    no_duplicates,     \* self.no_duplicates
    visited_urls,      \* self.visited_urls
    downloaded_images, \* self.downloaded_images
    failed_images,     \* self.failed_images
    seen_image_hashes, \* self.seen_image_hashes
    skip_stats,        \* self.skip_stats
    files,             \* the output directory: file name -> URL whose bytes it holds
    to_visit,          \* the frontier list of crawl: <<url, depth>> pairs
    pc,                \* position of the program: "main" (before the crawler is
                       \* built), "loop", "images", "done" (summary printed),
                       \* "crashed" (an exception left crawl), "exited",
                       \* "normalize" (runs of _normalize_url alone),
                       \* "viewer" and "viewer_menu" (picture viewer: top of the
                       \* main loop, waiting at the prompt of fallback_menu),
                       \* "collage" (collage viewer: in the Tk main loop)
    cur,               \* the popped target <<current_url, depth>>
    image_urls,        \* the image URLs of the page still to be handled
    img_budget,        \* the <img> and <source> tags the site has not yet served
    site_srcs,         \* the <img src> values the pages of the site hold
    site_hrefs,        \* the <a href> values the pages of the site hold
    fetch_log,         \* every page GET issued (session.get in _get_page), in order,
                       \* with the depth of its target
    image_gets,        \* every image GET issued (session.get in _download_image)
    image_heads,       \* every HEAD issued (session.head in _download_image)
    calls,             \* the calls of _download_image so far: URL, answers, result
    wire,              \* time.sleep(self.delay) and the requests of the session, in
                       \* order: "sleep", "GET", "HEAD"
    argv,              \* the parsed command line of main, <<>> when crawl is used
                       \* without main
    commands,          \* picture viewer: what `which` and subprocess.run meet for
                       \* a command: "ok", "oserror" (found, but cannot be run)
    dir_images,        \* the image files of the directory the viewers show
    selected,          \* picture viewer: the image picked last
    events,            \* picture viewer: what was run or shown, in order
    used_images,       \* collage viewer: self.used_images
    total_images_count,\* collage viewer: self.total_images_count
    displayed_images,  \* collage viewer: len(self.displayed_images)
    background_collage,\* collage viewer: the images painted into
                       \* self.background_collage (0: there is none)
    saved,             \* collage viewer: the collages saved: the count in the
                       \* filename and the images painted into the file
    image_path,        \* collage viewer: what get_unused_image returned last
    exit_status,       \* the exit status of main, "none" while it runs
    norm_in,           \* the URL text _normalize_url is run on
    norm_out           \* the results of _normalize_url: of norm_in, then of the result

\* what no step of crawl changes
viewers == <<commands, dir_images, selected, events, used_images, total_images_count,
             displayed_images, background_collage, saved, image_path>>
config == <<max_pages, max_depth, robots_parser, no_duplicates, site_srcs, site_hrefs,
            argv, exit_status, norm_in, norm_out, viewers>>
crawler == <<downloaded_images, failed_images, seen_image_hashes, skip_stats, files,
             image_gets, image_heads, calls>>
vars == <<config, visited_urls, to_visit, pc, cur, image_urls, img_budget, fetch_log,
          wire, crawler>>

\* a file left in the output directory by an earlier run
OldFile == <<"a", ".", "p", "n", "g">>
OldUrl == Url("old", "", <<>>, <<>>, <<>>)

\* Python's None
None == "None"

\* the two viewers of the repository are not running
ViewersOff ==
    /\ commands = <<>>
    /\ dir_images = {}
    /\ selected = None
    /\ events = <<>>
    /\ used_images = {}
    /\ total_images_count = 0
    /\ displayed_images = 0
    /\ background_collage = 0
    /\ saved = <<>>
    /\ image_path = None

\* the fields ImageCrawler.__init__ sets, and the first line of crawl
Fields ==
    /\ visited_urls = {}
    /\ downloaded_images = <<>>
    /\ failed_images = <<>>
    /\ seen_image_hashes = {}
    /\ skip_stats = [k \in SkipReasons |-> 0]
    /\ to_visit = << <<base_url, 0>> >>
    /\ cur = <<base_url, 0>>
    /\ image_urls = {}
    /\ fetch_log = <<>>
    /\ image_gets = <<>>
    /\ image_heads = <<>>
    /\ calls = <<>>
    /\ wire = <<>>

\* ImageCrawler.__init__ (with _check_robots) and the first line of crawl, for
\* a crawler that is used without main
Constructed ==
    /\ \E how \in RobotsReads, rules \in RobotsRules :
          /\ (how # "parsed" => rules = {})
          /\ robots_parser = _check_robots(how, rules)
    /\ Fields
    /\ ViewersOff
    /\ pc = "loop"
    /\ argv = <<>>
    /\ exit_status = "none"
    /\ norm_in = <<>>
    /\ norm_out = <<>>

\* crawls of a site without images, under every configuration
InitCrawl ==
    /\ Constructed
    /\ max_pages \in 0..MaxPagesBound
    /\ max_depth \in -1..MaxDepthBound
    /\ no_duplicates = FALSE
    /\ files = <<>>
    /\ img_budget = 0
    /\ site_srcs = {}
    /\ site_hrefs \in {Hrefs, MailHrefs}

\* crawls of a site with images: of its start page (max_pages = 1, max_depth = 0,
\* and the configurations that stop before it), of two of its pages, and of
\* two pages of a site whose only image is /a.png
Init ==
    /\ Constructed
    /\ site_hrefs = Hrefs
    /\ \/ /\ max_pages \in {0, 1}
          /\ max_depth \in {-1, 0}
          /\ no_duplicates \in BOOLEAN
          /\ files \in {<<>>, With(<<>>, OldFile, OldUrl)}
          /\ img_budget = MaxImages
          /\ site_srcs = ImageSrcs
       \/ /\ max_pages = 2
          /\ max_depth = 1
          /\ no_duplicates = FALSE
          /\ files = <<>>
          /\ img_budget = 1
          /\ site_srcs = ImageSrcs
       \/ /\ max_pages = 2
          /\ max_depth = 1
          /\ no_duplicates = FALSE
          /\ files = <<>>
          /\ img_budget = 2
          /\ site_srcs = { Url("https", "h", <<"/">> \o OldFile, <<>>, <<>>) }

\* the loop condition with <= for <
LoopGuard_OffByOne == to_visit # <<>> /\ Cardinality(visited_urls) <= max_pages

\* while to_visit and len(self.visited_urls) < max_pages
LoopGuard == to_visit # <<>> /\ Cardinality(visited_urls) < max_pages

\* crawl: the while condition is false; the summary is printed
LoopExit ==
    /\ pc = "loop"
    /\ ~LoopGuard
    /\ pc' = "done"
    /\ UNCHANGED <<config, visited_urls, to_visit, cur, image_urls, img_budget, fetch_log,
                   wire, crawler>>

\* crawl: pop(0), depth > max_depth: continue
PopTooDeep ==
    /\ pc = "loop"
    /\ LoopGuard
    /\ Head(to_visit)[2] > max_depth
    /\ cur' = Head(to_visit)
    /\ to_visit' = Tail(to_visit)
    /\ UNCHANGED <<config, visited_urls, pc, image_urls, img_budget, fetch_log, wire, crawler>>

\* _get_page without the robots.txt test
NoRequest_NoRobots(url) == url \in visited_urls

\* _get_page returns None before any request: the URL is already visited,
\* or robots.txt disallows it
NoRequest(url) == url \in visited_urls \/ ~_is_allowed(robots_parser, url)

\* _get_page returns None without a request and crawl goes on to extract
PopNoRequest_Extracts ==
    /\ pc = "loop"
    /\ LoopGuard
    /\ Head(to_visit)[2] <= max_depth
    /\ NoRequest(Head(to_visit)[1])
    /\ cur' = Head(to_visit)
    /\ to_visit' = Tail(to_visit)
    /\ pc' = "images"
    /\ UNCHANGED <<config, visited_urls, image_urls, img_budget, fetch_log, wire, crawler>>

\* crawl: pop(0); _get_page returns None without a request: continue
PopNoRequest ==
    /\ pc = "loop"
    /\ LoopGuard
    /\ Head(to_visit)[2] <= max_depth
    /\ NoRequest(Head(to_visit)[1])
    /\ cur' = Head(to_visit)
    /\ to_visit' = Tail(to_visit)
    /\ UNCHANGED <<config, visited_urls, pc, image_urls, img_budget, fetch_log, wire, crawler>>

\* the page GET raises and _get_page does not catch it
PopFetchFailed_Uncaught ==
    /\ pc = "loop"
    /\ LoopGuard
    /\ Head(to_visit)[2] <= max_depth
    /\ ~NoRequest(Head(to_visit)[1])
    /\ cur' = Head(to_visit)
    /\ to_visit' = Tail(to_visit)
    /\ fetch_log' = Append(fetch_log, Head(to_visit))
    /\ wire' = wire \o <<"sleep", "GET">>
    /\ pc' = "crashed"
    /\ UNCHANGED <<config, visited_urls, image_urls, img_budget, crawler>>

\* crawl: pop(0); time.sleep(delay); the page GET raises RequestException
\* (network, status, timeout), which _get_page catches
PopFetchFailed ==
    /\ pc = "loop"
    /\ LoopGuard
    /\ Head(to_visit)[2] <= max_depth
    /\ ~NoRequest(Head(to_visit)[1])
    /\ cur' = Head(to_visit)
    /\ to_visit' = Tail(to_visit)
    /\ fetch_log' = Append(fetch_log, Head(to_visit))
    /\ wire' = wire \o <<"sleep", "GET">>
    /\ UNCHANGED <<config, visited_urls, pc, image_urls, img_budget, crawler>>

\* crawl: pop(0); time.sleep(delay); the page GET succeeds; _find_images
\* reads the body and returns
PopFetched ==
    /\ pc = "loop"
    /\ LoopGuard
    /\ Head(to_visit)[2] <= max_depth
    /\ ~NoRequest(Head(to_visit)[1])
    /\ HasAdapter(Head(to_visit)[1])
    /\ cur' = Head(to_visit)
    /\ to_visit' = Tail(to_visit)
    /\ fetch_log' = Append(fetch_log, Head(to_visit))
    /\ wire' = wire \o <<"sleep", "GET">>
    /\ visited_urls' = visited_urls \cup {Head(to_visit)[1]}
    /\ \E srcs \in SUBSET site_srcs, sets \in SUBSET SrcSets :
          /\ ~FindImagesRaises(sets)
          /\ Cardinality(srcs) + Cardinality(sets) <= img_budget
          /\ img_budget' = img_budget - (Cardinality(srcs) + Cardinality(sets))
          /\ image_urls' = _find_images(srcs, sets)
    /\ pc' = "images"
    /\ UNCHANGED <<config, crawler>>

\* crawl: pop(0); time.sleep(delay); the page GET succeeds; _find_images
\* raises IndexError on the body, and nothing in crawl catches it
FindImagesRaised ==
    /\ pc = "loop"
    /\ LoopGuard
    /\ Head(to_visit)[2] <= max_depth
    /\ ~NoRequest(Head(to_visit)[1])
    /\ HasAdapter(Head(to_visit)[1])
    /\ cur' = Head(to_visit)
    /\ to_visit' = Tail(to_visit)
    /\ fetch_log' = Append(fetch_log, Head(to_visit))
    /\ wire' = wire \o <<"sleep", "GET">>
    /\ visited_urls' = visited_urls \cup {Head(to_visit)[1]}
    /\ \E sets \in SUBSET SrcSets :
          /\ FindImagesRaises(sets)
          /\ Cardinality(sets) <= img_budget
          /\ img_budget' = img_budget - Cardinality(sets)
    /\ pc' = "crashed"
    /\ UNCHANGED <<config, image_urls, crawler>>

\* the answers that are read on the path of this URL
Relevant(url, r) == NeedsHead(url) <=> r.content_type # "none"

\* crawl: one image of the page is handed to _download_image
DownloadImage ==
    /\ pc = "images"
    /\ \E url \in image_urls, r \in Responses :
          /\ Downloadable(url)
          /\ Relevant(url, r)
          /\ image_urls' = image_urls \ {url}
          /\ LET c == [skip_stats |-> skip_stats, files |-> files,
                       seen_image_hashes |-> seen_image_hashes,
                       downloaded_images |-> downloaded_images,
                       failed_images |-> failed_images,
                       image_gets |-> image_gets, image_heads |-> image_heads,
                       wire |-> wire, no_duplicates |-> no_duplicates,
                       ret |-> FALSE, outcome |-> "none", filename |-> <<>>]
                 d == _download_image(c, url, r)
             IN  /\ skip_stats' = d.skip_stats
                 /\ files' = d.files
                 /\ seen_image_hashes' = d.seen_image_hashes
                 /\ downloaded_images' = d.downloaded_images
                 /\ failed_images' = d.failed_images
                 /\ image_gets' = d.image_gets
                 /\ image_heads' = d.image_heads
                 /\ wire' = d.wire
                 /\ calls' = Append(calls, [url |-> url, r |-> r, ret |-> d.ret,
                                             outcome |-> d.outcome, filename |-> d.filename])
    /\ UNCHANGED <<config, visited_urls, to_visit, pc, cur, img_budget, fetch_log>>

\* crawl: an image URL that is neither same-domain nor http(s) is passed over
SkipImage ==
    /\ pc = "images"
    /\ \E url \in image_urls :
          /\ ~Downloadable(url)
          /\ image_urls' = image_urls \ {url}
    /\ UNCHANGED <<config, visited_urls, to_visit, pc, cur, img_budget, fetch_log, wire, crawler>>

RECURSIVE AppendNew(_, _, _, _)
\* for link in links: if link not in visited and (link, depth+1) not in to_visit: append
AppendNew(q, links, d, visited) ==
    IF links = <<>> THEN q
    ELSE LET link == Head(links)
             queued == \E i \in 1..Len(q) : q[i] = <<link, d>>
         IN AppendNew(IF link \notin visited /\ ~queued THEN Append(q, <<link, d>>) ELSE q,
                      Tail(links), d, visited)

\* the orders list(set(links)) can come in
Orders(S) == { s \in [1..Cardinality(S) -> S] : \A i, j \in 1..Cardinality(S) : s[i] = s[j] => i = j }

\* the depth test with <= for <
BelowMaxDepth_OffByOne(depth) == depth <= max_depth

\* if depth < max_depth
BelowMaxDepth(depth) == depth < max_depth

\* the new links put at the front of the frontier
EnqueueLinks_Front ==
    /\ pc = "images"
    /\ image_urls = {}
    /\ IF BelowMaxDepth(cur[2])
          THEN \E hrefs \in SUBSET site_hrefs : \E links \in Orders(_find_links(hrefs)) :
                  LET q == AppendNew(to_visit, links, cur[2] + 1, visited_urls)
                  IN  to_visit' = SubSeq(q, Len(to_visit) + 1, Len(q)) \o to_visit
          ELSE to_visit' = to_visit
    /\ pc' = "loop"
    /\ UNCHANGED <<config, visited_urls, cur, image_urls, img_budget, fetch_log, wire, crawler>>

\* crawl: the images are done; _find_links reads the anchors of the body (the
\* first time they are read) and the links are enqueued, below max_depth only
EnqueueLinks ==
    /\ pc = "images"
    /\ image_urls = {}
    /\ IF BelowMaxDepth(cur[2])
          THEN \E hrefs \in SUBSET site_hrefs : \E links \in Orders(_find_links(hrefs)) :
                  to_visit' = AppendNew(to_visit, links, cur[2] + 1, visited_urls)
          ELSE to_visit' = to_visit
    /\ pc' = "loop"
    /\ UNCHANGED <<config, visited_urls, cur, image_urls, img_budget, fetch_log, wire, crawler>>

\* crawl: the images are done; _find_links raises ValueError on an anchor
\* urljoin cannot parse, and nothing in crawl catches it
FindLinksRaised ==
    /\ pc = "images"
    /\ image_urls = {}
    /\ BelowMaxDepth(cur[2])
    /\ \E h \in RawHrefs : UrlJoinRaises(h)
    /\ pc' = "crashed"
    /\ UNCHANGED <<config, visited_urls, to_visit, cur, image_urls, img_budget, fetch_log,
                   wire, crawler>>

Next ==
    \/ LoopExit
    \/ PopTooDeep
    \/ PopNoRequest
    \/ PopFetchFailed
    \/ PopFetched
    \/ DownloadImage
    \/ SkipImage
    \/ EnqueueLinks
    \/ FindImagesRaised
    \/ FindLinksRaised

Spec == Init /\ [][Next]_vars

\* The <img src> values of a site that serves /a.png.tmp next to /a.png
StagedSrcs ==
    { Url("https", "h", <<"/">> \o TempName(OldFile), <<>>, <<>>),
      Url("https", "h", <<"/">> \o OldFile, <<>>, <<>>),
      Url("ftp", "o", <<"/", "f", ".", "p", "n", "g">>, <<>>, <<>>) }

\* crawls of the start page of that site into an empty output directory
InitStage ==
    /\ Constructed
    /\ site_hrefs = Hrefs
    /\ max_pages = 1
    /\ max_depth \in {-1, 0, 1}
    /\ no_duplicates \in BOOLEAN
    /\ files = <<>>
    /\ img_budget = MaxImages
    /\ site_srcs = StagedSrcs

SpecStage == InitStage /\ [][Next]_vars

\* the crawl of a site without images: the image loop of crawl has nothing to do
NextCrawl ==
    \/ LoopExit
    \/ PopTooDeep
    \/ PopNoRequest
    \/ PopFetchFailed
    \/ PopFetched
    \/ EnqueueLinks
    \/ FindLinksRaised

SpecCrawl == InitCrawl /\ [][NextCrawl]_vars

(***************************************************************************)
(* main: the command line, its validation, the crawler it builds.          *)
(***************************************************************************)
\* RobotFileParser() before read()
Unread == _check_robots("unread", {})

\* the command lines: the scheme of the url argument and the numeric options
\* (the defaults of --min-size, --min-width, --min-height, and zero)
Args ==
    [scheme : {"https", "ftp"}, delay : {0, 1}, max_pages : {0, 1}, max_depth : {-1, 0, 1},
     min_size : {0, min_size_kb}, min_width : {0, min_dimensions[1]},
     min_height : {0, min_dimensions[2]}]

\* main after parser.parse_args(), on a site without images
InitMain ==
    /\ Fields
    /\ ViewersOff
    /\ pc = "main"
    /\ argv \in Args
    /\ exit_status = "none"
    /\ robots_parser = Unread
    /\ max_pages = argv.max_pages
    /\ max_depth = argv.max_depth
    /\ no_duplicates = FALSE
    /\ files = <<>>
    /\ img_budget = 0
    /\ site_srcs = {}
    /\ site_hrefs = Hrefs
    /\ norm_in = <<>>
    /\ norm_out = <<>>

\* args.url.startswith(("http://", "https://"))
ValidUrl(a) == a.scheme \in {"http", "https"}

\* main: the URL does not start with http:// or https://: sys.exit(1)
MainInvalidUrl ==
    /\ pc = "main"
    /\ ~ValidUrl(argv)
    /\ pc' = "exited"
    /\ exit_status' = 1
    /\ UNCHANGED <<max_pages, max_depth, robots_parser, no_duplicates, site_srcs, site_hrefs, argv,
                   norm_in, norm_out, viewers, visited_urls, to_visit, cur, image_urls, img_budget,
                   fetch_log, wire, crawler>>

\* main: ImageCrawler(...) is built, which reads robots.txt, and crawl is called
MainStart ==
    /\ pc = "main"
    /\ ValidUrl(argv)
    /\ \E how \in RobotsReads, rules \in RobotsRules :
          /\ (how # "parsed" => rules = {})
          /\ robots_parser' = _check_robots(how, rules)
    /\ pc' = "loop"
    /\ UNCHANGED <<max_pages, max_depth, no_duplicates, site_srcs, site_hrefs, argv, exit_status,
                   norm_in, norm_out, viewers, visited_urls, to_visit, cur, image_urls, img_budget,
                   fetch_log, wire, crawler>>

\* main: crawl has returned after its summary; the interpreter exits with 0
MainReturn ==
    /\ pc = "done"
    /\ pc' = "exited"
    /\ exit_status' = 0
    /\ UNCHANGED <<max_pages, max_depth, robots_parser, no_duplicates, site_srcs, site_hrefs, argv,
                   norm_in, norm_out, viewers, visited_urls, to_visit, cur, image_urls, img_budget,
                   fetch_log, wire, crawler>>

NextMain ==
    \/ MainInvalidUrl
    \/ MainStart
    \/ MainReturn
    \/ NextCrawl

SpecMain == InitMain /\ [][NextMain]_vars

(***************************************************************************)
(* _normalize_url on URL texts. A text is what follows "https://h" in a    *)
(* URL: path, ";params", "?query", "#fragment".                            *)
(***************************************************************************)
MaxTextLen == 4         \* the texts have at most MaxTextLen characters

TextChars == {"/", "a", ";", "?", "#"}

\* the netloc ends at the first "/", "?" or "#"
Texts ==
    { t \in UNION { [1..n -> TextChars] : n \in 0..MaxTextLen } :
         t = <<>> \/ t[1] \in {"/", "?", "#"} }

\* s.find(ch, from): the first index >= from that holds ch, 0 when there is none
Find(s, ch, from) ==
    IF \E i \in from..Len(s) : s[i] = ch
    THEN CHOOSE i \in from..Len(s) : s[i] = ch /\ \A m \in from..(i - 1) : s[m] # ch
    ELSE 0

\* urlparse("https://h" + t): the fragment is split off at the first "#",
\* the query at the first "?", the params at the first ";" of the last
\* path segment
urlparse(t) ==
    LET h == Find(t, "#", 1)
        t1 == IF h = 0 THEN t ELSE SubSeq(t, 1, h - 1)
        q == Find(t1, "?", 1)
        t2 == IF q = 0 THEN t1 ELSE SubSeq(t1, 1, q - 1)
        i == Find(t2, ";", IF LastSlash(t2) = 0 THEN 1 ELSE LastSlash(t2))
    IN  [scheme   |-> "https",
         netloc   |-> "h",
         path     |-> IF i = 0 THEN t2 ELSE SubSeq(t2, 1, i - 1),
         params   |-> IF i = 0 THEN <<>> ELSE SubSeq(t2, i + 1, Len(t2)),
         query    |-> IF q = 0 THEN <<>> ELSE SubSeq(t1, q + 1, Len(t1)),
         fragment |-> IF h = 0 THEN <<>> ELSE SubSeq(t, h + 1, Len(t))]

\* urlunparse(u), without the leading "https://h": empty params, query and
\* fragment are left out together with their separator
urlunparse(u) ==
    LET url == IF u.params # <<>> THEN u.path \o <<";">> \o u.params ELSE u.path
        url1 == IF url # <<>> /\ url[1] # "/" THEN <<"/">> \o url ELSE url
        url2 == IF u.query # <<>> THEN url1 \o <<"?">> \o u.query ELSE url1
    IN  IF u.fragment # <<>> THEN url2 \o <<"#">> \o u.fragment ELSE url2

\* ImageCrawler._normalize_url as the function on strings it is
NormalizeText(t) == urlunparse(_normalize_url(urlparse(t)))

\* no crawler is running
CrawlerOff ==
    /\ Fields
    /\ robots_parser = Unread
    /\ max_pages = 0
    /\ max_depth = 0
    /\ no_duplicates = FALSE
    /\ files = <<>>
    /\ img_budget = 0
    /\ site_srcs = {}
    /\ site_hrefs = {}

\* runs of _normalize_url alone, on every text
InitNorm ==
    /\ CrawlerOff
    /\ ViewersOff
    /\ pc = "normalize"
    /\ norm_in \in Texts
    /\ norm_out = <<>>
    /\ argv = <<>>
    /\ exit_status = "none"

\* _normalize_url is applied to the text, then to its own result
Normalize ==
    /\ pc = "normalize"
    /\ Len(norm_out) < 2
    /\ norm_out' = Append(norm_out, NormalizeText(IF norm_out = <<>> THEN norm_in
                                                   ELSE norm_out[Len(norm_out)]))
    /\ UNCHANGED <<max_pages, max_depth, robots_parser, no_duplicates, site_srcs, site_hrefs, argv,
                   exit_status, norm_in, viewers, visited_urls, to_visit, pc, cur, image_urls,
                   img_budget, fetch_log, wire, crawler>>

NextNorm == Normalize

SpecNorm == InitNorm /\ [][NextNorm]_vars

(***************************************************************************)
(* The picture viewer (nimhirdykla.py): main picks an image with fzf or    *)
(* with the numbered menu and shows it inline or in an external viewer.    *)
(* events logs what was run or shown: "fzf_pick", "fzf_cancel",            *)
(* "fzf_empty" (fzf ran and ended so), "menu" (fallback_menu printed its   *)
(* list), the name of an inline tool (subprocess.run of it), "open_image", *)
(* "no_images", "Exiting...".                                              *)
(***************************************************************************)
MaxEvents == 4

INLINE_TOOLS ==
    <<"chafa", "chafa", "viu", "tiv", "tycat", "imgcat", "icat", "catimg">>

Tools == {"fzf", "chafa", "viu"}

Directories == { {}, {"a.png"}, {"a.png", "b.jpg"} }

\* what running `cmd` meets: "missing" (which fails), "ok", "oserror"
CommandState(cmds, cmd) ==
    IF cmd \in DOMAIN cmds THEN cmds[cmd] ELSE "missing"

command_exists(cmds, cmd) == CommandState(cmds, cmd) # "missing"

\* the loop of display_inline over its candidates: whether a tool displayed
\* the image, and the tools that were run
RECURSIVE TryCandidates(_, _)
TryCandidates(cmds, candidates) ==
    IF candidates = <<>> THEN [ok |-> FALSE, ran |-> <<>>]
    ELSE LET tool == Head(candidates)
             rest == TryCandidates(cmds, Tail(candidates))
         IN  IF ~command_exists(cmds, tool) THEN rest
             ELSE IF CommandState(cmds, tool) = "ok"
                  THEN [ok |-> TRUE, ran |-> <<tool>>]
                  ELSE [ok |-> rest.ok, ran |-> <<tool>> \o rest.ran]

display_inline(cmds, preferred) ==
    TryCandidates(cmds, IF preferred # None THEN <<preferred>> ELSE INLINE_TOOLS)

\* the events of open_or_display(path, inline, inline_preferred)
open_or_display(cmds, inline, inline_preferred) ==
    LET shown == IF inline \/ inline_preferred # None
                 THEN display_inline(cmds, inline_preferred)
                 ELSE display_inline(cmds, None)
    IN  IF shown.ok THEN shown.ran ELSE shown.ran \o <<"open_image">>

\* main after parse_args, with the directory found
InitViewer ==
    /\ CrawlerOff
    /\ norm_in = <<>>
    /\ norm_out = <<>>
    /\ pc = "viewer"
    /\ exit_status = "none"
    /\ argv \in [no_inline : BOOLEAN, inline_tool : {None, "chafa", "viu"}]
    /\ commands \in { c \in [Tools -> {"missing", "ok", "oserror"}] :
                         c["fzf"] # "oserror" }
    /\ dir_images \in Directories
    /\ selected = None
    /\ events = <<>>
    /\ used_images = {}
    /\ total_images_count = 0
    /\ displayed_images = 0
    /\ background_collage = 0
    /\ saved = <<>>
    /\ image_path = None

\* the variables the picture viewer leaves alone
ViewerFrame ==
    UNCHANGED <<max_pages, max_depth, robots_parser, no_duplicates, site_srcs, site_hrefs,
                argv, norm_in, norm_out, commands, dir_images, used_images,
                total_images_count, displayed_images, background_collage, saved,
                image_path, visited_urls, to_visit, cur, image_urls, img_budget,
                fetch_log, wire, crawler>>

\* the tail of one turn of main's loop, once an image is selected
Opening(before, image) ==
    /\ selected' = image
    /\ events' = before \o open_or_display(commands, ~argv.no_inline, argv.inline_tool)
    /\ pc' = "viewer"
    /\ exit_status' = exit_status

\* main: the directory holds no image
ViewerNoImages ==
    /\ pc = "viewer"
    /\ dir_images = {}
    /\ events' = Append(events, "no_images")
    /\ pc' = "exited"
    /\ exit_status' = 1
    /\ selected' = selected
    /\ ViewerFrame

\* main: fzf is installed and the user picks an image (or the random entry)
ViewerFzfPicked ==
    /\ pc = "viewer"
    /\ dir_images # {}
    /\ Len(events) < MaxEvents
    /\ command_exists(commands, "fzf")
    /\ \E image \in dir_images : Opening(Append(events, "fzf_pick"), image)
    /\ ViewerFrame

\* main: fzf is installed and returns no selection (non-zero exit, or
\* nothing on its output): pick_with_fzf returns None and fallback_menu
\* prints its list
ViewerFzfCancelled ==
    /\ pc = "viewer"
    /\ dir_images # {}
    /\ Len(events) < MaxEvents
    /\ command_exists(commands, "fzf")
    /\ \E how \in {"fzf_cancel", "fzf_empty"} : events' = events \o <<how, "menu">>
    /\ pc' = "viewer_menu"
    /\ UNCHANGED <<selected, exit_status>>
    /\ ViewerFrame

\* main: fzf is not installed, fallback_menu prints its list
ViewerNoFzf ==
    /\ pc = "viewer"
    /\ dir_images # {}
    /\ Len(events) < MaxEvents
    /\ ~command_exists(commands, "fzf")
    /\ events' = Append(events, "menu")
    /\ pc' = "viewer_menu"
    /\ UNCHANGED <<selected, exit_status>>
    /\ ViewerFrame

\* fallback_menu: a number, a range or r is entered
ViewerMenuPicked ==
    /\ pc = "viewer_menu"
    /\ \E image \in dir_images : Opening(events, image)
    /\ ViewerFrame

\* fallback_menu: q is entered, main prints Exiting... and leaves its loop
ViewerMenuQuit ==
    /\ pc = "viewer_menu"
    /\ events' = Append(events, "Exiting...")
    /\ pc' = "exited"
    /\ exit_status' = 0
    /\ selected' = None
    /\ ViewerFrame

\* fallback_menu: anything else is entered, the list is printed again
ViewerMenuInvalid ==
    /\ pc = "viewer_menu"
    /\ Len(events) < MaxEvents
    /\ events' = Append(events, "menu")
    /\ UNCHANGED <<pc, selected, exit_status>>
    /\ ViewerFrame

NextViewer ==
    \/ ViewerNoImages
    \/ ViewerFzfPicked
    \/ ViewerFzfCancelled
    \/ ViewerNoFzf
    \/ ViewerMenuPicked
    \/ ViewerMenuQuit
    \/ ViewerMenuInvalid

SpecViewer == InitViewer /\ [][NextViewer]_vars

(***************************************************************************)
(* The collage viewer (byhirtas.py): add_next_image runs once from         *)
(* CollageViewer.__init__ and then from the Tk timer it re-arms each time. *)
(* The images on the canvas and in the background collage are counted, not *)
(* kept: a saved collage is the pair of the count in its file name and the *)
(* number of images painted into it.                                       *)
(***************************************************************************)
MaxAdds == 31

SaveEvery == 30

CollageDirectories == Directories \cup { {"a.png", "b.jpg", "c.svg"} }

\* where save_collage raises: nowhere, in collage.save, or in
\* load_collage_background (the file is written, the canvas is kept)
SaveFaults == {"none", "save", "reload"}

\* get_unused_image: the list random.choice draws from
\* (mutant) the used images are not filtered out
Unused_All(available_images, used) == available_images

Unused(available_images, used) ==
    LET unused == available_images \ used
    IN  IF unused = {} /\ available_images # {} THEN available_images ELSE unused

\* get_unused_image: self.used_images before the selected image is added
UsedBeforeAdd(available_images, used) ==
    IF available_images \ used = {} /\ available_images # {} THEN {} ELSE used

\* CollageViewer.__init__ up to its call of add_next_image
InitCollage ==
    /\ CrawlerOff
    /\ norm_in = <<>>
    /\ norm_out = <<>>
    /\ argv = <<>>
    /\ exit_status = "none"
    /\ pc = "collage_init"
    /\ commands = <<>>
    /\ selected = None
    /\ events = <<>>
    /\ dir_images \in CollageDirectories
    /\ used_images = {}
    /\ total_images_count = 0
    /\ displayed_images = 0
    /\ background_collage = 0
    /\ saved = <<>>
    /\ image_path = None

\* the variables the collage viewer leaves alone
CollageFrame ==
    UNCHANGED <<max_pages, max_depth, robots_parser, no_duplicates, site_srcs, site_hrefs,
                argv, exit_status, norm_in, norm_out, commands, dir_images, selected,
                events, visited_urls, to_visit, cur, image_urls, img_budget,
                fetch_log, wire, crawler>>

\* save_collage with `placed` images on the canvas
SaveCollage(placed, fault) ==
    IF fault = "save"
    THEN /\ displayed_images' = placed
         /\ UNCHANGED <<background_collage, saved>>
    ELSE /\ saved' = Append(saved, [count  |-> total_images_count',
                                    images |-> background_collage + placed])
         /\ IF fault = "reload"
            THEN /\ displayed_images' = placed
                 /\ UNCHANGED background_collage
            ELSE /\ displayed_images' = 0
                 /\ background_collage' = background_collage + placed

\* add_next_image: the directory has no image, nothing is added
AddNothing ==
    /\ pc \in {"collage_init", "collage"}
    /\ Unused(dir_images, used_images) = {}
    /\ image_path' = None
    /\ pc' = "collage"
    /\ UNCHANGED <<used_images, total_images_count, displayed_images,
                   background_collage, saved>>
    /\ CollageFrame

\* add_next_image: an image is drawn, loaded (or not: load_and_place_image
\* prints the error) and counted; every SaveEvery-th time the collage is saved
AddNextImage ==
    /\ pc \in {"collage_init", "collage"}
    /\ total_images_count < MaxAdds
    /\ \E image \in Unused(dir_images, used_images), loaded \in BOOLEAN,
          fault \in SaveFaults :
          LET placed == IF loaded THEN displayed_images + 1 ELSE displayed_images
          IN  /\ used_images' = UsedBeforeAdd(dir_images, used_images) \cup {image}
              /\ image_path' = image
              /\ total_images_count' = total_images_count + 1
              /\ IF total_images_count' % SaveEvery = 0
                 THEN SaveCollage(placed, fault)
                 ELSE /\ displayed_images' = placed
                      /\ UNCHANGED <<background_collage, saved>>
    /\ pc' = "collage"
    /\ CollageFrame

\* Escape: root.quit() ends the main loop
CollageQuit ==
    /\ pc = "collage"
    /\ pc' = "exited"
    /\ UNCHANGED <<used_images, total_images_count, displayed_images,
                   background_collage, saved, image_path>>
    /\ CollageFrame

NextCollage ==
    \/ AddNothing
    \/ AddNextImage
    \/ CollageQuit

SpecCollage == InitCollage /\ [][NextCollage]_vars

(***************************************************************************)
(* Properties.                                                             *)
(***************************************************************************)
Range(q) == { q[i] : i \in 1..Len(q) }

\* C1: no URL appears twice in the page fetch log, whether its GET succeeded
\* or failed. (Refuted: a URL whose GET failed is not in visited_urls and is
\* enqueued and requested again when a later page links to it.)
C1_FetchedOnce ==
    \A i, j \in 1..Len(fetch_log) : fetch_log[i][1] = fetch_log[j][1] => i = j

\* C2: with max_pages >= 0, visited_urls never holds more than max_pages URLs.
C2_VisitedBound ==
    max_pages >= 0 => Cardinality(visited_urls) <= max_pages

\* the crawl stopped at the page limit with targets still queued
C2_Witness ==
    /\ pc = "done"
    /\ max_pages >= 2
    /\ Cardinality(visited_urls) = max_pages
    /\ to_visit # <<>>

\* C3: every page GET is for a target of depth <= max_depth, and every entry
\* appended to the frontier has depth <= max_depth.
C3_DepthBound ==
    [][ /\ \A i \in 1..Len(fetch_log') : fetch_log'[i][2] <= max_depth'
        /\ \A i \in 1..Len(to_visit') :
              to_visit'[i] \notin Range(to_visit) => to_visit'[i][2] <= max_depth' ]_vars

\* a page at depth max_depth >= 1 was fetched and its links were passed over
C3_Witness ==
    /\ max_depth >= 1
    /\ pc = "loop"
    /\ cur[2] = max_depth
    /\ cur \in Range(fetch_log)
    /\ cur[1] \in visited_urls

\* C4: the frontier never holds two entries with the same URL. (Refuted: the
\* membership test compares (url, depth) pairs, so a URL queued at depth d is
\* appended again when found at another depth.)
C4_NoDuplicateTargets ==
    \A i, j \in 1..Len(to_visit) : to_visit[i][1] = to_visit[j][1] => i = j

\* the call of _download_image a step makes, and what it was answered
Called == Len(calls') = Len(calls) + 1
TheCall == calls'[Len(calls')]
TooSmall(r) == r.size_kb < min_size_kb
TooLow(r) == r.dims # <<>> /\ (r.dims[1] < min_dimensions[1] \/ r.dims[2] < min_dimensions[2])
\* the payload was staged in full and its size could be read
Staged(k) == k.outcome \notin {"webp", "already_exists"} /\ k.r.fault \notin {"get", "stream", "stat"}
CreatedBy(n) == n \in DOMAIN files' /\ (n \notin DOMAIN files \/ files'[n] # files[n])

C6_FilterOrder ==
    [][ Called =>
          LET k == TheCall
              h == _get_image_hash(k.r)
              headWebp == Len(image_heads') = Len(image_heads) + 1 /\ k.r.content_type = "image/webp"
              dup == no_duplicates /\ h # "" /\ h \in seen_image_hashes
          IN  /\ (IsWebpUrl(k.url) \/ headWebp) => k.outcome = "webp" /\ image_gets' = image_gets
              /\ (Staged(k) /\ TooSmall(k.r)) => k.outcome = "too_small_size"
              /\ (Staged(k) /\ ~TooSmall(k.r) /\ TooLow(k.r)) => k.outcome = "too_small_dimensions"
              /\ (Staged(k) /\ ~TooSmall(k.r) /\ ~TooLow(k.r) /\ dup) => k.outcome = "duplicate"
              /\ k.outcome \in {"webp", "too_small_size", "too_small_dimensions", "duplicate"} =>
                    /\ skip_stats' = [skip_stats EXCEPT ![k.outcome] = @ + 1]
                    /\ seen_image_hashes' = seen_image_hashes
                    /\ downloaded_images' = downloaded_images
                    /\ failed_images' = failed_images
                    /\ ~k.ret ]_vars

\* with duplicate detection on, an image below both thresholds was counted
\* as too small in size only, and its hash was not recorded
C6_Witness ==
    /\ no_duplicates
    /\ Len(calls) = 1
    /\ TooSmall(calls[1].r) /\ TooLow(calls[1].r)
    /\ skip_stats = [k \in SkipReasons |-> IF k = "too_small_size" THEN 1 ELSE 0]
    /\ seen_image_hashes = {}

\* C7: with no_duplicates on, two downloads of payloads with the same first
\* 64KB from different URLs, both past the size and dimension stages (and
\* both hashed), give exactly one accepted file and exactly one duplicate
\* skip. (Refuted: the hash is recorded before the rename, so when the first
\* download fails at the rename the second is skipped as a duplicate and no
\* file is accepted.)
C7_OneAcceptedOneDuplicate ==
    no_duplicates =>
       \A i, j \in 1..Len(calls) :
          ( /\ i < j
            /\ calls[i].url # calls[j].url
            /\ calls[i].r.prefix = calls[j].r.prefix
            /\ calls[i].r.fault # "hash" /\ calls[j].r.fault # "hash"
            /\ Staged(calls[i]) /\ ~TooSmall(calls[i].r) /\ ~TooLow(calls[i].r)
            /\ Staged(calls[j]) /\ ~TooSmall(calls[j].r) /\ ~TooLow(calls[j].r)
            /\ \A m \in 1..Len(calls) : m \in {i, j} \/ calls[m].r.prefix # calls[i].r.prefix )
          => /\ calls[i].outcome = "accepted"
             /\ calls[j].outcome = "duplicate"
             /\ skip_stats["duplicate"] = 1

\* C8: when the final filename already exists, _download_image returns True
\* without a GET, leaves the file, downloaded_images, failed_images and
\* seen_image_hashes as they are, and adds one to already_exists only.
C8_AlreadyExists ==
    [][ (Called /\ TheCall.outcome # "webp" /\ TheCall.filename \in DOMAIN files) =>
          /\ TheCall.outcome = "already_exists"
          /\ TheCall.ret
          /\ image_gets' = image_gets
          /\ files' = files
          /\ downloaded_images' = downloaded_images
          /\ failed_images' = failed_images
          /\ seen_image_hashes' = seen_image_hashes
          /\ skip_stats' = [skip_stats EXCEPT !["already_exists"] = @ + 1] ]_vars

\* a second URL with the filename of an image accepted before was passed over
C8_Witness ==
    /\ Len(calls) = 2
    /\ calls[1].outcome = "accepted"
    /\ calls[2].outcome = "already_exists"
    /\ calls[2].url # calls[1].url
    /\ files[calls[2].filename] = calls[1].url
    /\ Len(image_gets) = 1

\* C9: every page GET is for a URL robots.txt allows; a disallowed URL is
\* never requested as a page, never visited, and its images and links are
\* never processed. Image downloads are not gated.
C9_RobotsGate ==
    /\ \A i \in 1..Len(fetch_log) : _is_allowed(robots_parser, fetch_log[i][1])
    /\ \A u \in visited_urls : _is_allowed(robots_parser, u)
    /\ pc = "images" => _is_allowed(robots_parser, cur[1])

\* a disallowed link was popped and not requested, after an image with a
\* disallowed URL had been requested all the same
C9_Witness ==
    /\ pc = "loop"
    /\ ~_is_allowed(robots_parser, cur[1])
    /\ cur[1] \notin visited_urls
    /\ \A i \in 1..Len(fetch_log) : fetch_log[i][1] # cur[1]
    /\ fetch_log # <<>>
    /\ \E i \in 1..Len(image_gets) : ~_is_allowed(robots_parser, image_gets[i])

\* C10: when reading robots.txt fails, every URL is allowed, so the start
\* page is fetched. (Refuted: the parser of a failed read has last_checked
\* unset, and can_fetch then answers False for every URL.)
C10_FailedRobotsAllowsAll ==
    robots_parser.how = "exception" =>
       /\ \A u \in PageUrls : _is_allowed(robots_parser, u)
       /\ (pc = "done" /\ max_pages >= 1 /\ max_depth >= 0) => fetch_log # <<>>

\* a step in which a page GET was issued and failed
PageFetchFailed == Len(fetch_log') = Len(fetch_log) + 1 /\ visited_urls' = visited_urls

C12_ExtractionReturns == pc # "crashed"

\* C13: every GET and HEAD on the wire comes right after a sleep. (Refuted:
\* the HEAD that derives a filename is sent without a sleep before it.)
C13_DelayBeforeEveryRequest ==
    \A i \in 1..Len(wire) :
        wire[i] \in {"GET", "HEAD"} => (i > 1 /\ wire[i - 1] = "sleep")

\* C14: no image URL is the target of two GETs in one run. (Refuted: an
\* image whose first attempt was rejected or failed leaves no file and no
\* record, and is requested again when another page holds it.)
C14_ImageRequestedOnce ==
    \A i, j \in 1..Len(image_gets) : image_gets[i] = image_gets[j] => i = j

\* C15: a crawl that can take no further step has left its loop with the
\* frontier empty or max_pages URLs visited, and has printed the summary.
\* (Refuted: on a site with a page whose extraction raises, crawl ends in
\* the exception and prints no summary.)
C15_StopsAtSummary ==
    (~ENABLED NextCrawl) => (pc = "done" /\ ~LoopGuard)

\* C16: the second application of _normalize_url returns what the first
\* returned, and the first result has no fragment and the scheme, host and
\* query of the input. (Refuted: a trailing slash after an empty ";params"
\* is stripped into a path that ends in ";", which the next parse reads as
\* the params separator and drops.)
C16_NormalizeIdempotent ==
    /\ Len(norm_out) >= 1 =>
          LET u == urlparse(norm_in)
              n == urlparse(norm_out[1])
          IN  /\ n.fragment = <<>>
              /\ n.scheme = u.scheme /\ n.netloc = u.netloc /\ n.query = u.query
    /\ Len(norm_out) = 2 => norm_out[2] = norm_out[1]

\* the numbers the summary prints for failures and skips
Counted(failed, stats) ==
    Len(failed) + stats["webp"] + stats["too_small_size"] + stats["too_small_dimensions"]
                + stats["duplicate"] + stats["already_exists"]

\* a step in which _get_page turned a target down for robots.txt
PageDisallowed ==
    /\ pc = "loop" /\ LoopGuard
    /\ Head(to_visit)[2] <= max_depth
    /\ Head(to_visit)[1] \notin visited_urls
    /\ ~_is_allowed(robots_parser, Head(to_visit)[1])
    /\ to_visit' = Tail(to_visit)

\* C17: every failed page GET, every page robots.txt disallows, every
\* rejected image and every failed image download adds one to failed_images
\* or to an entry of skip_stats. (Refuted: a failed page GET and a
\* disallowed page are printed when they happen and counted nowhere.)
C17_FailuresCounted ==
    [][ (PageFetchFailed \/ PageDisallowed \/ (Called /\ TheCall.outcome # "accepted")) =>
           Counted(failed_images', skip_stats') = Counted(failed_images, skip_stats) + 1 ]_vars

\* the command line main has to refuse
Invalid(a) ==
    \/ ~ValidUrl(a)
    \/ a.delay <= 0 \/ a.max_pages <= 0 \/ a.max_depth <= 0
    \/ a.min_size <= 0 \/ a.min_width <= 0 \/ a.min_height <= 0

\* C18: past its validation, main with an invalid command line has exited
\* with a non-zero status, robots.txt unread and no page requested.
\* (Refuted: main tests the scheme only; with a non-positive option the
\* crawler is built, robots.txt is read, and crawl runs.)
C18_InvalidConfigFatal ==
    (pc # "main" /\ Invalid(argv)) =>
       /\ pc = "exited"
       /\ exit_status = 1
       /\ robots_parser = Unread
       /\ fetch_log = <<>>

\* C19: every visited URL is its own normal form, and no two fetched pages
\* have the same normal form. (Refuted: the start URL is base_url, the
\* command-line URL with its trailing slashes stripped and never normalized,
\* so "https://h" is visited and the link "https://h/" is fetched as well.)
C19_VisitedNormalized ==
    /\ \A u \in visited_urls : u = _normalize_url(u)
    /\ \A i, j \in 1..Len(fetch_log) :
          ( /\ fetch_log[i][1] \in visited_urls /\ fetch_log[j][1] \in visited_urls
            /\ _normalize_url(fetch_log[i][1]) = _normalize_url(fetch_log[j][1]) ) => i = j

\* C20: seen_image_hashes holds hashes of accepted images only, and is
\* empty while no_duplicates is off. (Refuted: the hash is recorded before
\* the rename, so an attempt that fails at the rename leaves its hash in
\* the set.)
C20_SeenHashesAccepted ==
    /\ seen_image_hashes \subseteq
          { _get_image_hash(calls[i].r) : i \in { k \in 1..Len(calls) : calls[k].outcome = "accepted" } }
    /\ ~no_duplicates => seen_image_hashes = {}

\* C21: a call of _download_image whose URL names webp, or whose HEAD or GET
\* response has a webp content-type, ends as a 'webp' skip and saves no
\* file. (Refuted: the content-type of the GET response is never read, so
\* /a.png served as image/webp is staged, checked and saved as a.png.)
C21_WebpNeverSaved ==
    \A i \in 1..Len(calls) :
       LET k == calls[i]
           answered == k.outcome # "already_exists" /\ k.r.fault # "get"
       IN  ( \/ IsWebpUrl(k.url)
             \/ (NeedsHead(k.url) /\ k.r.content_type = "image/webp")
             \/ (answered /\ k.r.get_type = "image/webp") )
           => (k.outcome = "webp" /\ k.filename \notin DOMAIN files)

\* C22: every URL in the frontier, and every URL a page GET was issued for,
\* has the netloc of the base URL. (Refuted: _is_same_domain also accepts a
\* URL without a netloc, and after urljoin that is a mailto:, javascript: or
\* tel: link, which is enqueued and handed to session.get.)
C22_SameDomain ==
    /\ \A i \in 1..Len(to_visit) : to_visit[i][1].netloc = base_url.netloc
    /\ \A i \in 1..Len(fetch_log) : fetch_log[i][1].netloc = base_url.netloc

\* a step in which a target was popped and no request was issued for it: it
\* was too deep, already visited, or disallowed
PoppedUnrequested ==
    /\ pc = "loop"
    /\ to_visit # <<>> /\ to_visit' = Tail(to_visit)
    /\ fetch_log' = fetch_log

\* C26: _download_image is called and the frontier grows only while crawl
\* handles a target whose page GET has just succeeded; the new entries have
\* the depth of that target plus one, and only when its depth is below
\* max_depth; a target whose GET failed or that was not requested leads to no
\* call of _download_image and to no new frontier entry.
C26_ExtractAfterFetch ==
    [][ /\ (Called \/ Len(to_visit') > Len(to_visit)) =>
              /\ pc = "images"
              /\ cur[1] \in visited_urls
              /\ fetch_log # <<>> /\ fetch_log[Len(fetch_log)] = cur
        /\ \A i \in 1..Len(to_visit') :
              to_visit'[i] \notin Range(to_visit) =>
                 (to_visit'[i][2] = cur[2] + 1 /\ cur[2] < max_depth)
        /\ (PageFetchFailed \/ PoppedUnrequested) =>
              /\ calls' = calls
              /\ to_visit' = Tail(to_visit)
              /\ visited_urls' = visited_urls
              /\ image_urls' = {}
              /\ pc' = "loop" ]_vars

\* the first page was fetched, its image handled and its links enqueued;
\* the GET of the second target then failed and the third was disallowed:
\* still one call, and nothing new in the frontier
C26_Witness ==
    /\ pc = "loop"
    /\ Len(calls) = 1
    /\ Len(fetch_log) = 2
    /\ fetch_log[2][2] = 1
    /\ fetch_log[2][1] \notin visited_urls
    /\ cur # fetch_log[2]
    /\ ~_is_allowed(robots_parser, cur[1])
    /\ \A i \in 1..Len(to_visit) : to_visit[i][2] = 1

\* C27: a staged image that is large enough and whose dimensions cannot be
\* read is not counted as too_small_dimensions: it goes on to the duplicate
\* stage (skipped there, or its hash recorded) and to the rename; an image
\* is rejected for its dimensions only when both were read and one of them
\* is below its minimum.
C27_UnreadableDimensionsPass ==
    [][ Called =>
          LET k == TheCall
              h == _get_image_hash(k.r)
              dup == no_duplicates /\ h # "" /\ h \in seen_image_hashes
          IN  /\ (Staged(k) /\ ~TooSmall(k.r) /\ k.r.dims = <<>>) =>
                    /\ skip_stats'["too_small_dimensions"] = skip_stats["too_small_dimensions"]
                    /\ k.outcome = (IF dup THEN "duplicate"
                                    ELSE IF k.r.fault = "rename" THEN "failed" ELSE "accepted")
                    /\ (no_duplicates /\ ~dup) => h \in seen_image_hashes'
              /\ k.outcome = "too_small_dimensions" =>
                    /\ Len(k.r.dims) = 2
                    /\ k.r.dims[1] < min_dimensions[1] \/ k.r.dims[2] < min_dimensions[2] ]_vars

\* with duplicate detection on, an image with unreadable dimensions was
\* accepted, and a second one with the same content was skipped as duplicate
C27_Witness ==
    /\ no_duplicates
    /\ Len(calls) = 2
    /\ calls[1].r.dims = <<>> /\ calls[1].outcome = "accepted"
    /\ calls[1].filename \in DOMAIN files
    /\ calls[2].r.dims = <<>> /\ calls[2].outcome = "duplicate"
    /\ skip_stats["too_small_dimensions"] = 0

\* C30: the depth of the popped target never decreases from one pop to the
\* next, and the frontier is always in non-decreasing order of depth, its
\* depths at most one apart and none below the depth of the last popped
\* target.
C30_BreadthFirst ==
    [][ /\ cur'[2] >= cur[2]
        /\ \A i, j \in 1..Len(to_visit') :
              /\ i < j => to_visit'[i][2] <= to_visit'[j][2]
              /\ to_visit'[j][2] - to_visit'[i][2] <= 1
        /\ to_visit' # <<>> => to_visit'[1][2] >= cur'[2] ]_vars

\* a target of depth 1 was popped after the start page, and the frontier
\* holds targets of depth 1 followed by targets of depth 2
C30_Witness ==
    /\ pc = "loop"
    /\ cur[2] = 1
    /\ Len(fetch_log) >= 2
    /\ \E i, j \in 1..Len(to_visit) : i < j /\ to_visit[i][2] = 1 /\ to_visit[j][2] = 2

\* the inline tools that were run
InlineRuns == { i \in 1..Len(events) : events[i] \in Range(INLINE_TOOLS) }

\* C23: with --no-inline and no --inline-tool, no inline tool is ever run for
\* any image: open_or_display goes straight to the external viewer.
C23_NoInlineSkipsInline ==
    (pc \in {"viewer", "viewer_menu", "exited"} /\ argv.no_inline /\ argv.inline_tool = None)
        => InlineRuns = {}

\* C24: when --inline-tool names a tool that is not installed and one of
\* INLINE_TOOLS is installed and runs, the image is displayed by it: the
\* external viewer is not reached.
C24_MissingToolFallsBack ==
    ( /\ pc \in {"viewer", "viewer_menu", "exited"}
      /\ argv.inline_tool # None
      /\ ~command_exists(commands, argv.inline_tool)
      /\ \E i \in 1..Len(INLINE_TOOLS) : CommandState(commands, INLINE_TOOLS[i]) = "ok" )
        => "open_image" \notin Range(events)

\* C25: when the user cancels the fzf selection the program quits: the next
\* thing it prints is Exiting..., no menu is shown and no image is opened.
C25_FzfCancelQuits ==
    \A i \in 1..Len(events) :
       events[i] = "fzf_cancel" =>
          /\ pc = "exited"
          /\ i < Len(events)
          /\ events[i + 1] = "Exiting..."

\* a step of add_next_image
AddStep == pc \in {"collage_init", "collage"} /\ pc' = "collage"

\* C28: with a fixed directory, get_unused_image returns None only when the
\* directory has no image; the image it returns is not in used_images unless
\* every image of the directory is (then the set restarts from that image),
\* and it is added to used_images: between two resets each image is returned
\* once.
C28_UnusedUntilAllUsed ==
    [][ AddStep =>
          /\ (image_path' = None) <=> (dir_images = {})
          /\ used_images' \subseteq dir_images
          /\ image_path' # None =>
                /\ image_path' \in dir_images
                /\ IF used_images = dir_images
                   THEN used_images' = {image_path'}
                   ELSE /\ image_path' \notin used_images
                        /\ used_images' = used_images \cup {image_path'} ]_vars

\* every image of a directory of three was returned, and a fourth call has
\* reset the used set
C28_Witness ==
    /\ pc = "collage"
    /\ Cardinality(dir_images) = 3
    /\ total_images_count = 4
    /\ Cardinality(used_images) = 1

\* C29: total_images_count is the number of images added to the collage (on
\* the canvas or merged into the background), and the count in the name of a
\* saved collage is the number of images painted into it.
C29_CountIsImagesAdded ==
    /\ total_images_count = displayed_images + background_collage
    /\ \A i \in 1..Len(saved) : saved[i].count = saved[i].images

\* sum(skip_stats.values())
SkipTotal(stats) ==
    stats["webp"] + stats["too_small_size"] + stats["too_small_dimensions"]
        + stats["duplicate"] + stats["already_exists"]

\* C31: a call of _download_image records exactly one outcome: its URL is
\* appended to downloaded_images, or appended to failed_images, or exactly one
\* skip_stats counter grows by one, and nothing else of the three changes; the
\* number of calls is then the sum of the two lengths and the counters; the
\* call returns True exactly when the image was accepted or already existed.
C31_ExactlyOneOutcome ==
    [][ Called =>
          LET k == TheCall
              accepted == downloaded_images' = Append(downloaded_images, k.url)
              failed == failed_images' = Append(failed_images, k.url)
              grown == { s \in SkipReasons : skip_stats'[s] = skip_stats[s] + 1 }
              kept == { s \in SkipReasons : skip_stats'[s] = skip_stats[s] }
          IN  /\ accepted \/ downloaded_images' = downloaded_images
              /\ failed \/ failed_images' = failed_images
              /\ DOMAIN skip_stats' = SkipReasons
              /\ grown \cup kept = SkipReasons
              /\ (IF accepted THEN 1 ELSE 0) + (IF failed THEN 1 ELSE 0)
                     + Cardinality(grown) = 1
              /\ Len(calls') = Len(downloaded_images') + Len(failed_images')
                                  + SkipTotal(skip_stats')
              /\ k.ret <=> (accepted \/ "already_exists" \in grown) ]_vars

\* two calls with two different outcomes: an accepted image and one whose
\* file was in place (both True), or a failure and a size skip (both False)
C31_Witness ==
    /\ Len(calls) = 2
    /\ \/ Len(downloaded_images) = 1 /\ skip_stats["already_exists"] = 1
       \/ Len(failed_images) = 1 /\ skip_stats["too_small_size"] = 1

\* the final files of the images accepted so far
AcceptedFiles ==
    { calls[i].filename : i \in { j \in 1..Len(calls) : calls[j].outcome = "accepted" } }

\* C32: a call of _download_image leaves every file an earlier call accepted
\* in the output directory, with the bytes it had: the staging file of the
\* call is never such a file.
C32_AcceptedFilesSurvive ==
    [][ Called =>
          \A n \in AcceptedFiles \cap DOMAIN files :
             n \in DOMAIN files' /\ files'[n] = files[n] ]_vars

=============================================================================
